---------------------------- MODULE Spec2Model ----------------------------
(* A model of iucollections::ConcurrentQueue<T>                             *)
(* (include/iucollections/concurrentqueue.hpp): the ring buffer, its        *)
(* mutex, the free store its storage lives in, and the life cycle of        *)
(* queue objects (construction, copy, move, assignment, destruction).       *)
EXTENDS Integers, Sequences, FiniteSets, TLC

(***************************************************************************)
(* Bounds of the model.                                                    *)
(***************************************************************************)
\* largest capacity a constructor is called with
MaxCap == 3
\* element values are 1..NVals
NVals == 2
\* successful pushes recorded in one run of the single-queue specification
MaxPush == 5
\* addresses of the free store
NBlocks == 2
\* largest capacity of a queue of the life-cycle specification
LifeCap == 2
\* element values pushed in the life-cycle specification are 1..LifeVals
LifeVals == 1

(***************************************************************************)
(* Constants of the program.                                               *)
(***************************************************************************)
\* std::size_t is modelled 16 bits wide, the least width C++ allows.
SIZE_MAX == 65535
SizeMod == SIZE_MAX + 1
\* The value of an element that was never assigned (new T[n]).
Junk == 0

Values == 1..NVals
Cell == Values \cup {Junk}
Slots == 0..(MaxCap - 1)
Addr == 1..NBlocks
\* The queue objects of the program.
Inst == {"A", "B"}
\* The thread that makes the calls of a sequential run.
Self == "main"
Free == "free"

VARIABLES
    q,       \* the queue objects alive: name -> its data members
    heap,    \* the free store: address -> [state, cells]
    last,    \* the most recent call and how it ended
    status,  \* "running", "hung" (waits for a mutex for ever) or "aborted"
    dfree,   \* TRUE once delete[] was applied to storage already released
    pushed,  \* values of the successful pushes, in order (single queue)
    popped,  \* values the successful pops yielded, in order (single queue)
    copied,  \* <<A, B>> while B is a copy of A that only push and pop
             \* calls have followed, <<>> otherwise
    ref,     \* a reference a pop handed back, followed until a push
             \* writes its slot (single queue)
    th,      \* the threads of a concurrent run: where each one is
    sent,    \* values pushed with success by the producers, in order
    got,     \* values the consumers read through the references pop gave
    snap     \* states the source of a copy went through during the copy

\* the variables of the concurrent specifications
cvars == <<th, sent, got, snap>>

vars == <<q, heap, last, status, dfree, pushed, popped, copied, ref, cvars>>

Running == status = "running"
Alive(i) == i \in DOMAIN q

Call(op, i, s, res, val, yes) ==
    [op |-> op, inst |-> i, src |-> s, res |-> res, val |-> val, yes |-> yes]

\* q with object i (created if need be) holding the members r
Put(i, r) == [j \in DOMAIN q \cup {i} |-> IF j = i THEN r ELSE q[j]]
\* q without object i
Drop(i) == [j \in DOMAIN q \ {i} |-> q[j]]

(***************************************************************************)
(* The mutex and std::lock_guard.                                          *)
(***************************************************************************)
\* lock_guard's constructor: the caller owns the mutex
acquire(inst, t) == [inst EXCEPT !.mutex = t]
\* Mutant: the mutex stays locked when the call ends.
release_never(inst) == inst

\* lock_guard's destructor, on return and on a throw alike
release(inst) == [inst EXCEPT !.mutex = Free]

(***************************************************************************)
(* The helper of the ring buffer.                                          *)
(***************************************************************************)
\* Mutant: the index stops at the last slot instead of wrapping to 0.
safe_increment_nowrap(value, capacity_) ==
    IF value + 1 >= capacity_ THEN value ELSE value + 1

safe_increment(value, capacity_) ==
    LET v == IF value = SIZE_MAX THEN 0 ELSE value
    IN  ((v + 1) % SizeMod) % capacity_

(***************************************************************************)
(* The free store.                                                         *)
(***************************************************************************)
Unused(h) == {a \in Addr : h[a].state = "unused"}
\* where new T[n] may put the array: released storage, or storage never used
Avail(h) == {a \in Addr : h[a].state = "freed"}
            \cup (IF Unused(h) = {} THEN {}
                  ELSE {CHOOSE a \in Unused(h) : TRUE})
\* new T[n] constructs no int: the cells keep what the memory held
NewArray(h, a) == [h EXCEPT ![a].state = "live"]
\* Outcomes of using storage through a pointer: using released storage is
\* undefined, the program goes on with the memory as it is or is stopped.
Access(h, p) == IF h[p].state = "live" THEN {"ok"} ELSE {"ok", "abort"}
Store(h, p, k, v) == [h EXCEPT ![p].cells[k] = v]
Load(h, p, k) == h[p].cells[k]

\* What the queue would yield if popped until empty.
Contents(inst, h) ==
    [k \in 1..inst.size_ |->
        Load(h, inst.items, (inst.front + k - 1) % inst.capacity_)]

(***************************************************************************)
(* ConcurrentQueue(capacity).  last.val records the capacity asked for.    *)
(***************************************************************************)
\* Mutant: back starts at capacity, one past the last slot.
Fresh_backcap(capacity, a) ==
    [capacity_ |-> capacity, size_ |-> 0, front |-> 0,
     back |-> capacity, items |-> a, mutex |-> Free]

Fresh(capacity, a) ==
    [capacity_ |-> capacity, size_ |-> 0, front |-> 0,
     back |-> (capacity + SizeMod - 1) % SizeMod, items |-> a, mutex |-> Free]

\* Mutant: the constructor without its check of the capacity.
Construct_unchecked(i, capacity) ==
    /\ Running /\ ~Alive(i)
    /\ \E a \in Avail(heap) :
            /\ heap' = NewArray(heap, a)
            /\ q' = Put(i, Fresh(capacity, a))
            /\ last' = Call("construct", i, i, "ok", {capacity}, FALSE)
    /\ UNCHANGED <<status, dfree>>

Construct(i, capacity) ==
    /\ Running /\ ~Alive(i)
    /\ IF capacity = 0
       THEN /\ last' = Call("construct", i, i, "InvalidCapacity",
                            {capacity}, FALSE)
            /\ UNCHANGED <<q, heap>>
       ELSE \E a \in Avail(heap) :
            /\ heap' = NewArray(heap, a)
            /\ q' = Put(i, Fresh(capacity, a))
            /\ last' = Call("construct", i, i, "ok", {capacity}, FALSE)
    /\ UNCHANGED <<status, dfree>>

\* Mutant: the queue counts as full one element early.
is_full_early(inst) == inst.size_ + 1 >= inst.capacity_

\* Mutant: the queue counts as full one element too late.
is_full_late(inst) == inst.size_ > inst.capacity_

\* size_ == capacity_ (full, push)
is_full(inst) == inst.size_ = inst.capacity_

\* size_ == 0 (empty), !size_ (pop)
is_empty(inst) == inst.size_ = 0

(***************************************************************************)
(* Observers                                                               *)
(***************************************************************************)
size(i) ==
    /\ Running /\ Alive(i)
    /\ last' = Call("size", i, i, "ok", {q[i].size_}, FALSE)
    /\ UNCHANGED <<q, heap, status, dfree>>

capacity(i) ==
    /\ Running /\ Alive(i)
    /\ last' = Call("capacity", i, i, "ok", {q[i].capacity_}, FALSE)
    /\ UNCHANGED <<q, heap, status, dfree>>

empty(i) ==
    /\ Running /\ Alive(i) /\ q[i].mutex = Free
    /\ LET held == acquire(q[i], Self)
       IN  /\ last' = Call("empty", i, i, "ok", {}, is_empty(held))
           /\ q' = Put(i, release(held))
    /\ UNCHANGED <<heap, status, dfree>>

full(i) ==
    /\ Running /\ Alive(i) /\ q[i].mutex = Free
    /\ LET held == acquire(q[i], Self)
       IN  /\ last' = Call("full", i, i, "ok", {}, is_full(held))
           /\ q' = Put(i, release(held))
    /\ UNCHANGED <<heap, status, dfree>>

(***************************************************************************)
(* peek_front, peek_back: a reference to items[front], items[back], which  *)
(* the caller reads.                                                       *)
(***************************************************************************)
Peek(op, i, k) ==
    /\ Running /\ Alive(i) /\ q[i].mutex = Free
    /\ LET held == acquire(q[i], Self)
       IN  \E o \in Access(heap, held.items) :
           IF o = "abort"
           THEN /\ status' = "aborted"
                /\ last' = Call(op, i, i, "abort", {}, FALSE)
                /\ UNCHANGED q
           ELSE /\ last' = Call(op, i, i, "ok",
                                {Load(heap, held.items, k)}, FALSE)
                /\ q' = Put(i, release(held))
                /\ UNCHANGED status
    /\ UNCHANGED <<heap, dfree>>

peek_front(i) == Alive(i) /\ Peek("peek_front", i, q[i].front)

\* Mutant: peek_back reads the slot at front.
peek_back_front(i) == Alive(i) /\ Peek("peek_back", i, q[i].front)

peek_back(i) == Alive(i) /\ Peek("peek_back", i, q[i].back)

(***************************************************************************)
(* push(const T &), push(T &&)                                             *)
(***************************************************************************)
Push(op, i, item) ==
    /\ Running /\ Alive(i) /\ q[i].mutex = Free
    /\ LET held == acquire(q[i], Self)
       IN  IF is_full(held)
           THEN /\ last' = Call(op, i, i, "Full", {}, FALSE)
                /\ q' = Put(i, release(held))
                /\ UNCHANGED <<heap, status>>
           ELSE LET back1 == safe_increment(held.back, held.capacity_)
                    done == [held EXCEPT !.back = back1,
                                         !.size_ = (held.size_ + 1) % SizeMod]
                IN  \E o \in Access(heap, held.items) :
                    IF o = "abort"
                    THEN /\ status' = "aborted"
                         /\ last' = Call(op, i, i, "abort", {}, FALSE)
                         /\ UNCHANGED <<q, heap>>
                    ELSE /\ heap' = Store(heap, held.items, back1, item)
                         /\ q' = Put(i, release(done))
                         /\ last' = Call(op, i, i, "ok", {}, FALSE)
                         /\ UNCHANGED status
    /\ UNCHANGED dfree

push_copy(i, item) == Push("push_copy", i, item)

push_move(i, item) == Push("push_move", i, item)

(***************************************************************************)
(* pop: a reference to the slot at the old front, which the caller reads   *)
(* when pop returns.                                                       *)
(***************************************************************************)
pop(i) ==
    /\ Running /\ Alive(i) /\ q[i].mutex = Free
    /\ LET held == acquire(q[i], Self)
       IN  IF is_empty(held)
           THEN /\ last' = Call("pop", i, i, "Empty", {}, FALSE)
                /\ q' = Put(i, release(held))
                /\ UNCHANGED status
           ELSE LET done == [held EXCEPT
                        !.front = safe_increment(held.front, held.capacity_),
                        !.size_ = (held.size_ + SizeMod - 1) % SizeMod]
                IN  \E o \in Access(heap, held.items) :
                    IF o = "abort"
                    THEN /\ status' = "aborted"
                         /\ last' = Call("pop", i, i, "abort", {}, FALSE)
                         /\ UNCHANGED q
                    ELSE /\ q' = Put(i, release(done))
                         /\ last' = Call("pop", i, i, "ok",
                                {Load(heap, held.items, held.front)}, FALSE)
                         /\ UNCHANGED status
    /\ UNCHANGED <<heap, dfree>>

(***************************************************************************)
(* delete [] p, and the element-by-element copy of the constructors and of *)
(* copy assignment.                                                        *)
(***************************************************************************)
\* Outcomes of delete [] p.  Releasing live storage may leave its bytes or
\* overwrite them (the allocator keeps its own data there).  Releasing
\* storage that is not live is undefined: the program goes on, or is
\* stopped.
DeleteArray(h, p) ==
    IF h[p].state = "live"
    THEN {[h |-> [h EXCEPT ![p].state = "freed"],
           bad |-> FALSE, abort |-> FALSE],
          [h |-> [h EXCEPT ![p].state = "freed",
                           ![p].cells = [k \in Slots |-> Junk]],
           bad |-> FALSE, abort |-> FALSE]}
    ELSE {[h |-> h, bad |-> TRUE, abort |-> FALSE],
          [h |-> h, bad |-> TRUE, abort |-> TRUE]}

\* for (i = 0; i < n; ++i) to[i] = from[i]
CopyCells(h, to, from, n) ==
    [h EXCEPT ![to].cells =
        [k \in Slots |-> IF k < n THEN h[from].cells[k] ELSE h[to].cells[k]]]

Abort(op, i, s) ==
    /\ status' = "aborted"
    /\ last' = Call(op, i, s, "abort", {}, FALSE)
    /\ UNCHANGED <<q, heap>>

(***************************************************************************)
(* ConcurrentQueue(const ConcurrentQueue &)                                *)
(***************************************************************************)
CopyCtor(i, s) ==
    /\ Running /\ ~Alive(i) /\ Alive(s) /\ q[s].mutex = Free
    /\ LET src == acquire(q[s], Self)
       IN  \E a \in Avail(heap) :
           LET h1 == NewArray(heap, a)
           IN  \E o \in Access(h1, src.items) :
               IF o = "abort"
               THEN Abort("copy_ctor", i, s)
               ELSE /\ heap' = CopyCells(h1, a, src.items, src.capacity_)
                    /\ q' = [Put(i, [src EXCEPT !.items = a, !.mutex = Free])
                                EXCEPT ![s] = release(src)]
                    /\ last' = Call("copy_ctor", i, s, "ok", {}, FALSE)
                    /\ UNCHANGED status
    /\ UNCHANGED dfree

(***************************************************************************)
(* ConcurrentQueue(ConcurrentQueue &&)                                     *)
(***************************************************************************)
MoveCtor(i, s) ==
    /\ Running /\ ~Alive(i) /\ Alive(s) /\ q[s].mutex = Free
    /\ LET src == acquire(q[s], Self)
       IN  \E a \in Avail(heap) :
           LET h1 == NewArray(heap, a)
           IN  \E o \in Access(h1, src.items) :
               IF o = "abort"
               THEN Abort("move_ctor", i, s) /\ UNCHANGED dfree
               ELSE LET h2 == CopyCells(h1, a, src.items, src.capacity_)
                    IN  \E d \in DeleteArray(h2, src.items) :
                        /\ dfree' = (dfree \/ d.bad)
                        /\ IF d.abort
                           THEN Abort("move_ctor", i, s)
                           ELSE /\ heap' = d.h
                                /\ q' = [Put(i, [src EXCEPT !.items = a,
                                                            !.mutex = Free])
                                            EXCEPT ![s] = release(src)]
                                /\ last' = Call("move_ctor", i, s, "ok",
                                                {}, FALSE)
                                /\ UNCHANGED status

(***************************************************************************)
(* ~ConcurrentQueue()                                                      *)
(***************************************************************************)
Destroy(i) ==
    /\ Running /\ Alive(i) /\ q[i].mutex = Free
    /\ LET held == acquire(q[i], Self)
       IN  \E d \in DeleteArray(heap, held.items) :
            /\ dfree' = (dfree \/ d.bad)
            /\ IF d.abort
               THEN Abort("destroy", i, i)
               ELSE /\ heap' = d.h
                    /\ q' = Drop(i)
                    /\ last' = Call("destroy", i, i, "ok", {}, FALSE)
                    /\ UNCHANGED status

(***************************************************************************)
(* operator=, called with the object itself: lock_guard1 owns the mutex    *)
(* when lock_guard2 locks it again, before this is compared with &queue.   *)
(* Locking a std::mutex the thread owns is undefined: the thread waits for *)
(* ever, or lock() throws std::system_error, or (a build whose mutexes do  *)
(* nothing) the call goes on to the comparison and returns.                *)
(***************************************************************************)
Relock == {"hang", "system_error", "noop"}

SelfAssign(op, i) ==
    /\ Running /\ Alive(i) /\ q[i].mutex = Free
    /\ LET held == acquire(q[i], Self)
       IN  \E o \in Relock :
           IF o = "hang"
           THEN /\ status' = "hung"
                /\ q' = Put(i, held)
                /\ last' = Call(op, i, i, "hang", {}, FALSE)
           ELSE /\ q' = Put(i, release(held))
                /\ last' = Call(op, i, i,
                        IF o = "noop" THEN "ok" ELSE "system_error",
                        {}, FALSE)
                /\ UNCHANGED status
    /\ UNCHANGED <<heap, dfree>>

(***************************************************************************)
(* operator=(const ConcurrentQueue &)                                      *)
(***************************************************************************)
CopyAssign(i, s) ==
    IF i = s
    THEN SelfAssign("copy_assign", i)
    ELSE
    /\ Running /\ Alive(i) /\ Alive(s)
    /\ q[i].mutex = Free /\ q[s].mutex = Free
    /\ LET this == acquire(q[i], Self)
           src == acquire(q[s], Self)
       IN  \E d \in DeleteArray(heap, this.items) :
            /\ dfree' = (dfree \/ d.bad)
            /\ IF d.abort
               THEN Abort("copy_assign", i, s)
               ELSE \E a \in Avail(d.h) :
                    LET h1 == NewArray(d.h, a)
                    IN  \E o \in Access(h1, src.items) :
                        IF o = "abort"
                        THEN Abort("copy_assign", i, s)
                        ELSE /\ heap' = CopyCells(h1, a, src.items,
                                                  src.capacity_)
                             /\ q' = [q EXCEPT
                                    ![i] = release([src EXCEPT !.items = a]),
                                    ![s] = release(src)]
                             /\ last' = Call("copy_assign", i, s, "ok",
                                             {}, FALSE)
                             /\ UNCHANGED status

(***************************************************************************)
(* operator=(ConcurrentQueue &&)                                           *)
(***************************************************************************)
MoveAssign(i, s) ==
    IF i = s
    THEN SelfAssign("move_assign", i)
    ELSE
    /\ Running /\ Alive(i) /\ Alive(s)
    /\ q[i].mutex = Free /\ q[s].mutex = Free
    /\ LET this == acquire(q[i], Self)
           src == acquire(q[s], Self)
       IN  \E d \in DeleteArray(heap, this.items) :
            /\ dfree' = (dfree \/ d.bad)
            /\ IF d.abort
               THEN Abort("move_assign", i, s)
               ELSE /\ heap' = d.h
                    /\ q' = [q EXCEPT ![i] = release(src),
                                      ![s] = release(src)]
                    /\ last' = Call("move_assign", i, s, "ok", {}, FALSE)
                    /\ UNCHANGED status

(***************************************************************************)
(* The single-queue specification: one object, A, constructed and then     *)
(* used by one thread.                                                     *)
(***************************************************************************)
\* no reference is followed
NoRef == [on |-> FALSE, slot |-> Junk, val |-> Junk, need |-> Junk,
          since |-> Junk]

\* The threads of a concurrent run, and a thread that is in no call.
Threads == {"t1", "t2"}
Idle == [pc |-> "idle", op |-> "none", inst |-> "A", src |-> "A",
         arg |-> Junk, res |-> "none", val |-> {}, yes |-> FALSE,
         slot |-> Junk]

EmptyHeap(fill) ==
    [a \in Addr |-> [state |-> "unused", cells |-> [k \in Slots |-> fill]]]

Init ==
    /\ q = [j \in {} |-> 0]
    /\ \E fill \in Cell : heap = EmptyHeap(fill)
    /\ last = Call("none", "A", "A", "ok", {}, FALSE)
    /\ status = "running"
    /\ dfree = FALSE
    /\ pushed = <<>>
    /\ popped = <<>>
    /\ copied = <<>>
    /\ ref = NoRef
    /\ th = [t \in Threads |-> Idle]
    /\ sent = <<>>
    /\ got = <<>>
    /\ snap = {}

SoloConstruct ==
    /\ \E c \in 0..MaxCap : Construct("A", c)
    /\ UNCHANGED <<pushed, popped, copied, ref, cvars>>

SoloObserve ==
    /\ \/ size("A")
       \/ capacity("A")
       \/ empty("A")
       \/ full("A")
       \/ peek_front("A")
       \/ peek_back("A")
    /\ UNCHANGED <<pushed, popped, copied, ref, cvars>>

SoloPush ==
    /\ Len(pushed) < MaxPush
    /\ \E v \in Values :
        /\ \/ push_copy("A", v)
           \/ push_move("A", v)
        /\ pushed' = IF last'.res = "ok" THEN Append(pushed, v) ELSE pushed
    /\ UNCHANGED <<popped, copied, ref, cvars>>

SoloPop ==
    /\ pop("A")
    /\ popped' = IF last'.res = "ok"
                 THEN Append(popped, CHOOSE v \in last'.val : TRUE)
                 ELSE popped
    /\ UNCHANGED <<pushed, copied, ref, cvars>>

Next == SoloConstruct \/ SoloObserve \/ SoloPush \/ SoloPop

Spec == Init /\ [][Next]_vars

(***************************************************************************)
(* Claims about one queue (specification Spec).                            *)
(***************************************************************************)
PushCall == \E v \in Values : push_copy("A", v) \/ push_move("A", v)

\* C1: the value the i-th successful pop yields is the value given to the
\* i-th successful push, wrap-around of front and back included.
C1_FifoOrder ==
    /\ Len(popped) <= Len(pushed)
    /\ \A k \in 1..Len(popped) : popped[k] = pushed[k]

\* C1 witness: more pops than the queue has slots (front has wrapped), the
\* values popped not all the same.
C1_Witness ==
    /\ Alive("A")
    /\ Len(popped) > q["A"].capacity_
    /\ q["A"].capacity_ > 1
    /\ popped[1] # popped[2]

\* C2: after capacity pushes and no pop on a new queue, full() is true and a
\* push fails with Full; after one pop, one push succeeds and the next one
\* fails with Full.
C2_CapacityBoundary ==
    [][Alive("A") =>
        LET cap == q["A"].capacity_
            n == Len(pushed)
            m == Len(popped)
        IN  /\ (m = 0 /\ n = cap /\ full("A")) => last'.yes
            /\ (m = 0 /\ n = cap /\ PushCall) => last'.res = "Full"
            /\ (m = 1 /\ n = cap /\ PushCall) => last'.res = "ok"
            /\ (m = 1 /\ n = cap + 1 /\ PushCall) => last'.res = "Full"]_vars

\* C2 witness: the push after the refill has failed with Full.
C2_Witness ==
    /\ Alive("A")
    /\ Len(popped) = 1
    /\ Len(pushed) = q["A"].capacity_ + 1
    /\ last.op \in {"push_copy", "push_move"}
    /\ last.res = "Full"

\* C3: a push that fails with Full and a pop that fails with Empty leave
\* the data members, every slot of storage and the (released) mutex as they
\* were before the call.
C3_NoPartialMutation ==
    [][last'.res \in {"Full", "Empty"} =>
        /\ q' = q
        /\ heap' = heap
        /\ q'[last'.inst].mutex = Free]_vars

\* C3 witness: a push by move has failed with Full on a queue that wrapped.
C3_Witness ==
    /\ last.op = "push_move"
    /\ last.res = "Full"
    /\ Len(popped) > 0

\* C4: with count = 0, pop, peek_front and peek_back fail with Empty and
\* empty() is true.
C4_UnderflowBoundary ==
    [][(Alive("A") /\ q["A"].size_ = 0) =>
        /\ (pop("A") \/ peek_front("A") \/ peek_back("A"))
                => last'.res = "Empty"
        /\ empty("A") => last'.yes]_vars

\* C5: construction with capacity 0 fails with InvalidCapacity and makes no
\* object; with capacity >= 1 it succeeds, and size(), empty() and
\* capacity() then give 0, true and the capacity asked for.
C5_Construction ==
    [][/\ \A c \in 0..MaxCap : Construct("A", c) =>
            IF c = 0
            THEN last'.res = "InvalidCapacity" /\ ~Alive("A")'
            ELSE last'.res = "ok" /\ Alive("A")'
       /\ (last.op = "construct" /\ last.res = "ok") =>
            /\ size("A") => last'.val = {0}
            /\ empty("A") => last'.yes
            /\ capacity("A") => (last'.val = last.val /\ last.val # {0})]_vars

\* C5 witness: capacity() was called on a queue just constructed.
C5_Witness ==
    /\ last.op = "capacity"
    /\ last.val = {MaxCap}
    /\ pushed = <<>>

\* C16: front and back stay in 0..capacity_-1, so the comparison with
\* SIZE_MAX in safe_increment is never true; a successful push moves back
\* to (back + 1) mod capacity_ and leaves front, a successful pop moves
\* front to (front + 1) mod capacity_ and leaves back.
C16_IndexRange ==
    [][Alive("A")' =>
        /\ q'["A"].front \in 0..(q'["A"].capacity_ - 1)
        /\ q'["A"].back \in 0..(q'["A"].capacity_ - 1)
        /\ q'["A"].front # SIZE_MAX /\ q'["A"].back # SIZE_MAX
        /\ (PushCall /\ last'.res = "ok") =>
              /\ q'["A"].back = (q["A"].back + 1) % q["A"].capacity_
              /\ q'["A"].front = q["A"].front
        /\ (pop("A") /\ last'.res = "ok") =>
              /\ q'["A"].front = (q["A"].front + 1) % q["A"].capacity_
              /\ q'["A"].back = q["A"].back]_vars

\* C16 witness: a pop has taken front from the last slot back to slot 0.
C16_Witness ==
    /\ Alive("A")
    /\ q["A"].capacity_ > 1
    /\ last.op = "pop" /\ last.res = "ok"
    /\ Len(popped) = q["A"].capacity_
    /\ q["A"].front = 0

\* The slots front, front+1, ..., front+size_-1 (mod capacity_).
LiveSlots(inst) ==
    {(inst.front + k) % inst.capacity_ : k \in 0..(inst.size_ - 1)}

\* The values pushed and not yet popped, oldest first.
Pending == SubSeq(pushed, Len(popped) + 1, Len(pushed))

\* C17: (back + 1) mod capacity_ = (front + size_) mod capacity_; the slots
\* front .. front+size_-1 (mod capacity_) hold the values pushed and not
\* yet popped, in the order they were pushed; a successful push writes no
\* slot of that range.
C17_LiveRange ==
    [][Alive("A")' =>
        /\ (q'["A"].back + 1) % q'["A"].capacity_
              = (q'["A"].front + q'["A"].size_) % q'["A"].capacity_
        /\ Contents(q'["A"], heap') = Pending'
        /\ (PushCall /\ last'.res = "ok") =>
              \A k \in LiveSlots(q["A"]) :
                  Load(heap', q["A"].items, k) = Load(heap, q["A"].items, k)
       ]_vars

\* C17 witness: a full queue whose range of live slots wraps, after a push.
C17_Witness ==
    /\ Alive("A")
    /\ q["A"].capacity_ > 1
    /\ q["A"].size_ = q["A"].capacity_
    /\ q["A"].front > 0
    /\ last.op \in {"push_copy", "push_move"} /\ last.res = "ok"

(***************************************************************************)
(* The reference specification: one thread uses one queue as in Spec, and  *)
(* one of the references that pop handed back is followed until a push     *)
(* stores into its slot.  The runs are of any length: the values pushed    *)
(* and popped are not recorded.                                            *)
(***************************************************************************)
RefPush ==
    /\ \E v \in Values :
        \/ push_copy("A", v)
        \/ push_move("A", v)
    /\ ref' = IF last'.res = "ok" /\ ref.on
              THEN (IF ref.since + 1 >= ref.need
                    THEN NoRef
                    ELSE [ref EXCEPT !.since = ref.since + 1])
              ELSE ref
    /\ UNCHANGED <<pushed, popped, copied, cvars>>

RefPop ==
    /\ pop("A")
    /\ \E follow \in BOOLEAN :
        ref' = IF last'.res = "ok" /\ follow
               THEN [on |-> TRUE, slot |-> q["A"].front,
                     val |-> CHOOSE v \in last'.val : TRUE,
                     need |-> q["A"].capacity_ - q'["A"].size_,
                     since |-> 0]
               ELSE ref
    /\ UNCHANGED <<pushed, popped, copied, cvars>>

RefNext == SoloConstruct \/ SoloObserve \/ RefPush \/ RefPop

SpecRef == Init /\ [][RefNext]_vars

\* C18: with c the count right after a successful pop, none of the next
\* capacity_ - c - 1 successful pushes writes the slot the pop handed
\* back, which keeps the popped value, and the push that makes it
\* capacity_ - c writes that slot, whatever pops come in between.
C18_SlotReuse ==
    [][(Alive("A") /\ ref.on) =>
        /\ Load(heap, q["A"].items, ref.slot) = ref.val
        /\ ref.since < ref.need
        /\ (PushCall /\ last'.res = "ok") =>
              ((q'["A"].back = ref.slot) <=> (ref.since + 1 = ref.need))
        /\ (PushCall /\ last'.res = "ok" /\ ref.since + 1 < ref.need) =>
              Load(heap', q["A"].items, ref.slot) = ref.val
        /\ ~PushCall => Load(heap', q["A"].items, ref.slot) = ref.val]_vars

\* C18 witness: a reference that has seen two pushes and a later pop and
\* still needs one more push before its slot is written.
C18_Witness ==
    /\ Alive("A")
    /\ ref.on
    /\ ref.since = 2
    /\ ref.need = 3
    /\ last.op = "pop" /\ last.res = "ok"

\* C19: on a queue that is not empty, peek_front gives the value the next
\* pop will give, peek_back gives the value of the latest successful push,
\* and neither changes the queue or its slots.
C19_PeekPure ==
    [][(Alive("A") /\ q["A"].size_ > 0) =>
        /\ peek_front("A") =>
              /\ last'.res = "ok"
              /\ last'.val = {pushed[Len(popped) + 1]}
              /\ last'.val = {Contents(q["A"], heap)[1]}
              /\ q' = q /\ heap' = heap
        /\ peek_back("A") =>
              /\ last'.res = "ok"
              /\ last'.val = {pushed[Len(pushed)]}
              /\ q' = q /\ heap' = heap]_vars

\* C19 witness: peek_back on a queue that wrapped and whose oldest and
\* newest values differ.
C19_Witness ==
    /\ Alive("A")
    /\ last.op = "peek_back" /\ last.res = "ok"
    /\ q["A"].size_ > 1
    /\ Len(popped) > 0
    /\ q["A"].back < q["A"].front
    /\ pushed[Len(pushed)] # pushed[Len(popped) + 1]

(***************************************************************************)
(* The life-cycle specification: the objects A and B are constructed,      *)
(* copied, moved, assigned, used and destroyed by one thread.              *)
(***************************************************************************)
LifeConstruct ==
    /\ \E i \in Inst, c \in 1..LifeCap : Construct(i, c)
    /\ copied' = <<>>
    /\ UNCHANGED <<pushed, popped, ref, cvars>>

LifeCopyCtor ==
    /\ \E i \in Inst : \E s \in Inst \ {i} :
        /\ CopyCtor(i, s)
        /\ copied' = IF last'.res = "ok" THEN <<s, i>> ELSE <<>>
    /\ UNCHANGED <<pushed, popped, ref, cvars>>

LifeMoveCtor ==
    /\ \E i \in Inst : \E s \in Inst \ {i} : MoveCtor(i, s)
    /\ copied' = <<>>
    /\ UNCHANGED <<pushed, popped, ref, cvars>>

LifeDestroy ==
    /\ \E i \in Inst : Destroy(i)
    /\ copied' = <<>>
    /\ UNCHANGED <<pushed, popped, ref, cvars>>

LifeCopyAssign ==
    /\ \E i \in Inst, s \in Inst :
        /\ CopyAssign(i, s)
        /\ copied' = IF last'.res = "ok" /\ i # s THEN <<s, i>> ELSE <<>>
    /\ UNCHANGED <<pushed, popped, ref, cvars>>

LifeMoveAssign ==
    /\ \E i \in Inst, s \in Inst : MoveAssign(i, s)
    /\ copied' = <<>>
    /\ UNCHANGED <<pushed, popped, ref, cvars>>

LifePush ==
    /\ \E i \in Inst, v \in 1..LifeVals : push_copy(i, v)
    /\ UNCHANGED <<pushed, popped, copied, ref, cvars>>

LifePop ==
    /\ \E i \in Inst : pop(i)
    /\ UNCHANGED <<pushed, popped, copied, ref, cvars>>

LifeNext ==
    \/ LifeConstruct
    \/ LifeCopyCtor
    \/ LifeMoveCtor
    \/ LifeDestroy
    \/ LifeCopyAssign
    \/ LifeMoveAssign
    \/ LifePush
    \/ LifePop

LifeInit ==
    /\ q = [j \in {} |-> 0]
    /\ heap = EmptyHeap(Junk)
    /\ last = Call("none", "A", "A", "ok", {}, FALSE)
    /\ status = "running"
    /\ dfree = FALSE
    /\ pushed = <<>>
    /\ popped = <<>>
    /\ copied = <<>>
    /\ ref = NoRef
    /\ th = [t \in Threads |-> Idle]
    /\ sent = <<>>
    /\ got = <<>>
    /\ snap = {}

SpecLife == LifeInit /\ [][LifeNext]_vars

(***************************************************************************)
(* Claims about copies, moves, assignment and destruction (specification   *)
(* SpecLife).                                                              *)
(***************************************************************************)
SameMembers(a, b) ==
    /\ a.capacity_ = b.capacity_
    /\ a.size_ = b.size_
    /\ a.front = b.front
    /\ a.back = b.back

\* a push or a pop of object x
Mutates(x) == (\E v \in Values : push_copy(x, v) \/ push_move(x, v)) \/ pop(x)

\* the step leaves the size of object x and what it would pop as they were
Keeps(x) ==
    /\ q'[x].size_ = q[x].size_
    /\ Contents(q'[x], heap') = Contents(q[x], heap)

\* C6: a copy (by construction or assignment) of A into B gives B the
\* capacity, count, head, tail and slot contents of A, and afterwards a push
\* or pop of B leaves A's size and the values A would pop unchanged, and a
\* push or pop of A leaves B's unchanged.
C6_CopyIndependence ==
    [][/\ \A i \in Inst : \A s \in Inst \ {i} :
            ((CopyCtor(i, s) \/ CopyAssign(i, s)) /\ last'.res = "ok") =>
                /\ SameMembers(q'[i], q[s])
                /\ \A k \in 0..(q[s].capacity_ - 1) :
                    Load(heap', q'[i].items, k) = Load(heap, q[s].items, k)
       /\ copied # <<>> =>
            /\ Mutates(copied[2]) => Keeps(copied[1])
            /\ Mutates(copied[1]) => Keeps(copied[2])]_vars

\* C7: right after a move (by construction or assignment) of A into B, B's
\* capacity, count, head and tail are those A had before the move, and B
\* popped until empty yields the values A would have yielded, in order.
C7_MoveHandsOver ==
    [][\A i \in Inst : \A s \in Inst \ {i} :
            ((MoveCtor(i, s) \/ MoveAssign(i, s)) /\ last'.res = "ok") =>
                /\ SameMembers(q'[i], q[s])
                /\ Contents(q'[i], heap') = Contents(q[s], heap)]_vars

\* C8: after a move of A into B, A refers neither to B's storage block nor
\* to a released block: no two objects refer to the same block, and no
\* object refers to released storage.
C8_ExclusiveOwnership ==
    /\ (last.op \in {"move_ctor", "move_assign"} /\ last.res = "ok"
            /\ last.inst # last.src) =>
        /\ q[last.src].items # q[last.inst].items
        /\ heap[q[last.src].items].state = "live"
    /\ \A i \in DOMAIN q :
        /\ heap[q[i].items].state = "live"
        /\ \A j \in DOMAIN q \ {i} : q[j].items # q[i].items

\* C9: no storage block is released twice, and once every object is
\* destroyed no allocated block is left unreleased.
C9_ReleasedOnce ==
    /\ ~dfree
    /\ (DOMAIN q = {} /\ Running) => \A a \in Addr : heap[a].state # "live"

\* C10: assigning an object to itself (by copy or by move) returns to the
\* caller and leaves the data members, the storage and the released mutex
\* as they were.
C10_SelfAssignNoOp ==
    [][\A i \in Inst : (CopyAssign(i, i) \/ MoveAssign(i, i)) =>
            /\ last'.res = "ok"
            /\ status' = "running"
            /\ q' = q
            /\ heap' = heap
            /\ q'[i].mutex = Free]_vars


(***************************************************************************)
(* Calls made by concurrent threads.  A call is a sequence of steps, and   *)
(* the steps of different threads interleave: the lock_guard constructor   *)
(* (Lock), the test that guards the exception (Check), the writes          *)
(* (Update), the lock_guard destructor at scope exit (Unlock), the         *)
(* caller's use of the reference that pop and the peeks return (Deref),    *)
(* and the return to the caller (Return).  size and capacity have one      *)
(* step that reads a member with no lock (Read).  Reads and writes that    *)
(* race give the value of one order or of the other.                       *)
(***************************************************************************)
ConcCap == 2
ConcVals == 1

\* Mutant: a lock_guard that never waits.
CanLock_always(inst) == TRUE

\* std::mutex::lock returns when the mutex is owned by no thread
CanLock(inst) == inst.mutex = Free

Pushes == {"push_copy", "push_move"}
Refs == {"pop", "peek_front", "peek_back"}
Locked == Pushes \cup Refs \cup {"empty", "full"}
Unlocked == {"size", "capacity"}

At(t, r) == [th EXCEPT ![t] = r]
Goto(t, pc) == [th EXCEPT ![t].pc = pc]

Invoke(t, op, i, arg) ==
    /\ th[t].pc = "idle"
    /\ Alive(i)
    /\ th' = At(t, [Idle EXCEPT !.pc = IF op \in Unlocked THEN "read"
                                                          ELSE "lock",
                                !.op = op, !.inst = i, !.src = i,
                                !.arg = arg])
    /\ UNCHANGED <<q, heap>>

Lock(t) ==
    LET i == th[t].inst
    IN  /\ th[t].pc = "lock"
        /\ CanLock(q[i])
        /\ q' = [q EXCEPT ![i] = acquire(q[i], t)]
        /\ th' = Goto(t, "check")
        /\ UNCHANGED heap

\* the statements before the first write: the test of size_ in push and
\* pop, the whole body of the peeks and of empty and full
Check(t) ==
    LET i == th[t].inst
        op == th[t].op
        fail(e) == [th[t] EXCEPT !.pc = "unlock", !.res = e]
        done(k, b) == [th[t] EXCEPT !.pc = "unlock", !.res = "ok",
                                    !.slot = k, !.yes = b]
    IN  /\ th[t].pc = "check"
        /\ th' = At(t,
              CASE op \in Pushes ->
                      IF is_full(q[i]) THEN fail("Full")
                      ELSE [th[t] EXCEPT !.pc = "update"]
                [] op = "pop" ->
                      IF is_empty(q[i]) THEN fail("Empty")
                      ELSE [th[t] EXCEPT !.pc = "update"]
                [] op = "peek_front" -> done(q[i].front, FALSE)
                [] op = "peek_back" -> done(q[i].back, FALSE)
                [] op = "empty" -> done(Junk, is_empty(q[i]))
                [] OTHER -> done(Junk, is_full(q[i])))
        /\ UNCHANGED <<q, heap>>

\* the writes of push and pop
Update(t) ==
    LET i == th[t].inst
        back1 == safe_increment(q[i].back, q[i].capacity_)
    IN  /\ th[t].pc = "update"
        /\ IF th[t].op \in Pushes
           THEN /\ heap' = Store(heap, q[i].items, back1, th[t].arg)
                /\ q' = [q EXCEPT ![i].back = back1,
                                  ![i].size_ = (q[i].size_ + 1) % SizeMod]
                /\ th' = At(t, [th[t] EXCEPT !.pc = "unlock", !.res = "ok"])
           ELSE /\ q' = [q EXCEPT
                        ![i].front = safe_increment(q[i].front,
                                                    q[i].capacity_),
                        ![i].size_ = (q[i].size_ + SizeMod - 1) % SizeMod]
                /\ th' = At(t, [th[t] EXCEPT !.pc = "unlock", !.res = "ok",
                                             !.slot = q[i].front])
                /\ UNCHANGED heap

Unlock(t) ==
    LET i == th[t].inst
    IN  /\ th[t].pc = "unlock"
        /\ q' = [q EXCEPT ![i] = release(q[i])]
        /\ th' = Goto(t, IF th[t].op \in Refs /\ th[t].res = "ok"
                         THEN "deref" ELSE "ret")
        /\ UNCHANGED heap

\* the caller reads the element through the reference it was given
Deref(t) ==
    /\ th[t].pc = "deref"
    /\ th' = At(t, [th[t] EXCEPT !.pc = "ret",
                        !.val = {Load(heap, q[th[t].inst].items,
                                      th[t].slot)}])
    /\ UNCHANGED <<q, heap>>

\* return this->size_;  return this->capacity_;
Read(t) ==
    LET i == th[t].inst
    IN  /\ th[t].pc = "read"
        /\ th' = At(t, [th[t] EXCEPT !.pc = "ret", !.res = "ok",
                            !.val = IF th[t].op = "size"
                                    THEN {q[i].size_}
                                    ELSE {q[i].capacity_}])
        /\ UNCHANGED <<q, heap>>

Return(t) ==
    /\ th[t].pc = "ret"
    /\ th' = At(t, Idle)
    /\ UNCHANGED <<q, heap>>

\* what the concurrent specifications leave alone
solo == <<last, status, dfree, pushed, popped, copied, ref>>

(***************************************************************************)
(* The concurrent specification: two threads call the operations of one    *)
(* queue that the main thread constructed before it started them.          *)
(***************************************************************************)
ConcInit ==
    /\ \E c \in 1..ConcCap :
          q = [i \in {"A"} |-> Fresh(c, 1)]
    /\ heap = NewArray(EmptyHeap(Junk), 1)
    /\ last = Call("construct", "A", "A", "ok", {}, FALSE)
    /\ status = "running"
    /\ dfree = FALSE
    /\ pushed = <<>>
    /\ popped = <<>>
    /\ copied = <<>>
    /\ ref = NoRef
    /\ th = [t \in Threads |-> Idle]
    /\ sent = <<>>
    /\ got = <<>>
    /\ snap = {}

ConcInvoke(t) ==
    /\ \E op \in Locked \cup Unlocked :
       \E v \in (IF op \in Pushes THEN 1..ConcVals ELSE {Junk}) :
          Invoke(t, op, "A", v)
    /\ UNCHANGED <<solo, sent, got, snap>>

ConcLock(t) == Lock(t) /\ UNCHANGED <<solo, sent, got, snap>>

ConcCheck(t) == Check(t) /\ UNCHANGED <<solo, sent, got, snap>>

ConcUpdate(t) == Update(t) /\ UNCHANGED <<solo, sent, got, snap>>

ConcUnlock(t) == Unlock(t) /\ UNCHANGED <<solo, sent, got, snap>>

ConcDeref(t) == Deref(t) /\ UNCHANGED <<solo, sent, got, snap>>

ConcRead(t) == Read(t) /\ UNCHANGED <<solo, sent, got, snap>>

ConcReturn(t) == Return(t) /\ UNCHANGED <<solo, sent, got, snap>>

ConcNext ==
    \E t \in Threads :
        \/ ConcInvoke(t)
        \/ ConcLock(t)
        \/ ConcCheck(t)
        \/ ConcUpdate(t)
        \/ ConcUnlock(t)
        \/ ConcDeref(t)
        \/ ConcRead(t)
        \/ ConcReturn(t)

SpecConc == ConcInit /\ [][ConcNext]_vars


\* Fair scheduling: a thread inside a call goes on running, and a thread
\* that waits for the mutex gets it if the mutex is free again and again.
\* When a call is started is up to the caller.
Fairness ==
    \A t \in Threads :
        /\ WF_vars(ConcCheck(t))
        /\ WF_vars(ConcUpdate(t))
        /\ WF_vars(ConcUnlock(t))
        /\ WF_vars(ConcDeref(t))
        /\ WF_vars(ConcRead(t))
        /\ WF_vars(ConcReturn(t))
        /\ SF_vars(ConcLock(t))

SpecFair == SpecConc /\ Fairness

(***************************************************************************)
(* Claims about concurrent calls on one queue (SpecConc, SpecFair).        *)
(***************************************************************************)
\* A thread is at a statement that reads or writes items, front, back or
\* size_ inside an operation of the queue (capacity() reads capacity_).
Touches(t) ==
    \/ th[t].pc \in {"check", "update"}
    \/ th[t].pc = "read" /\ th[t].op = "size"

\* C13: inside the operations every access to the slots, front, back and
\* size_ is made by a thread that holds the mutex (size() included), so no
\* two threads are at such an access at once; capacity() alone reads
\* without the mutex.
C13_Synchronized ==
    /\ \A t \in Threads : Touches(t) => q[th[t].inst].mutex = t
    /\ \A t \in Threads : \A u \in Threads \ {t} :
          ~(Touches(t) /\ Touches(u))

\* C15: in every state of every interleaving of pushes and pops (and of
\* the other operations) 0 <= size_ <= capacity_.
C15_CountBounded ==
    \A i \in DOMAIN q : q[i].size_ \in 0..q[i].capacity_

\* C15 witness: one push is about to fill the last free slot while another
\* push waits for the mutex.
C15_Witness ==
    /\ th["t1"].op \in Pushes /\ th["t1"].pc = "update"
    /\ th["t2"].op \in Pushes /\ th["t2"].pc = "lock"
    /\ q["A"].size_ = q["A"].capacity_ - 1
    /\ q["A"].capacity_ = ConcCap

PCItems == 3
Producer == "t1"
Consumer == "t2"

PCProduce ==
    /\ Len(sent) < PCItems
    /\ Invoke(Producer, "push_copy", "A", Len(sent) + 1)
    /\ UNCHANGED <<solo, sent, got, snap>>

PCConsume ==
    /\ Len(got) < PCItems
    /\ Invoke(Consumer, "pop", "A", Junk)
    /\ UNCHANGED <<solo, sent, got, snap>>

PCLock == \E t \in Threads : Lock(t) /\ UNCHANGED <<solo, sent, got, snap>>

PCCheck == \E t \in Threads : Check(t) /\ UNCHANGED <<solo, sent, got, snap>>

PCUpdate == \E t \in Threads : Update(t) /\ UNCHANGED <<solo, sent, got, snap>>

PCUnlock == \E t \in Threads : Unlock(t) /\ UNCHANGED <<solo, sent, got, snap>>

PCDeref == \E t \in Threads : Deref(t) /\ UNCHANGED <<solo, sent, got, snap>>

\* the call returns: a push that did not throw has sent its value, a pop
\* that did not throw has given the consumer the value it read
PCReturn ==
    \E t \in Threads :
        /\ Return(t)
        /\ sent' = IF th[t].op \in Pushes /\ th[t].res = "ok"
                   THEN Append(sent, th[t].arg) ELSE sent
        /\ got' = IF th[t].op = "pop" /\ th[t].res = "ok"
                  THEN Append(got, CHOOSE v \in th[t].val : TRUE) ELSE got
        /\ UNCHANGED <<solo, snap>>

PCNext ==
    \/ PCProduce
    \/ PCConsume
    \/ PCLock
    \/ PCCheck
    \/ PCUpdate
    \/ PCUnlock
    \/ PCDeref
    \/ PCReturn

SpecPC == ConcInit /\ [][PCNext]_vars

\* how many times v occurs in the sequence s
Count(s, v) == Cardinality({k \in DOMAIN s : s[k] = v})

\* C12: when the producer has pushed all its values and the consumer has
\* popped as many, the values popped are the values pushed, each as many
\* times as it was pushed: none lost, none twice, none made up.
C12_Conservation ==
    (/\ Len(sent) = PCItems
     /\ Len(got) = PCItems
     /\ \A t \in Threads : th[t].pc = "idle")
        => \A v \in Cell : Count(got, v) = Count(sent, v)


(***************************************************************************)
(* Copies made while another thread uses the source.  The steps of the     *)
(* copy constructor and of copy assignment: the lock_guard of this->mutex  *)
(* (LockDst, assignment only), the lock_guard of queue.mutex (LockSrc),    *)
(* delete [] and new [] with the copy of the four members (Members), one   *)
(* turn of the element loop (Loop), and the two lock_guard destructors,    *)
(* the later one first (UnlockSrc, UnlockDst).                             *)
(***************************************************************************)
PairCap == 2
PairVals == 2
CopyOps == {"copy_ctor", "copy_assign"}

\* object i can be named by a thread: its constructor has returned
Built(i) ==
    /\ Alive(i)
    /\ \A t \in Threads : ~(th[t].op = "copy_ctor" /\ th[t].inst = i)

InvokeCopy(t, op, i, s) ==
    /\ th[t].pc = "idle"
    /\ i # s
    /\ Built(s)
    /\ IF op = "copy_ctor" THEN ~Alive(i) ELSE Built(i)
    /\ th' = At(t, [Idle EXCEPT !.pc = IF op = "copy_ctor" THEN "lock_src"
                                                           ELSE "lock_dst",
                                !.op = op, !.inst = i, !.src = s])
    /\ UNCHANGED <<q, heap>>

LockDst(t) ==
    LET i == th[t].inst
    IN  /\ th[t].pc = "lock_dst"
        /\ CanLock(q[i])
        /\ q' = [q EXCEPT ![i] = acquire(q[i], t)]
        /\ th' = Goto(t, "lock_src")
        /\ UNCHANGED heap

LockSrc(t) ==
    LET s == th[t].src
    IN  /\ th[t].pc = "lock_src"
        /\ CanLock(q[s])
        /\ q' = [q EXCEPT ![s] = acquire(q[s], t)]
        /\ th' = Goto(t, "members")
        /\ UNCHANGED heap

Members(t) ==
    LET i == th[t].inst
        s == th[t].src
    IN  /\ th[t].pc = "members"
        /\ \E d \in (IF th[t].op = "copy_ctor"
                     THEN {[h |-> heap, bad |-> FALSE, abort |-> FALSE]}
                     ELSE DeleteArray(heap, q[i].items)) :
           \E a \in Avail(d.h) :
              /\ heap' = NewArray(d.h, a)
              /\ q' = Put(i, [q[s] EXCEPT !.items = a,
                                          !.mutex = IF th[t].op = "copy_ctor"
                                                    THEN Free
                                                    ELSE q[i].mutex])
        /\ th' = At(t, [th[t] EXCEPT !.pc = "loop", !.slot = 0])

\* this->items[i] = queue.items[i]; ++i; i < queue.capacity_
Loop(t) ==
    LET i == th[t].inst
        s == th[t].src
        k == th[t].slot
    IN  /\ th[t].pc = "loop"
        /\ heap' = Store(heap, q[i].items, k, Load(heap, q[s].items, k))
        /\ th' = At(t, IF k + 1 < q[s].capacity_
                       THEN [th[t] EXCEPT !.slot = k + 1]
                       ELSE [th[t] EXCEPT !.pc = "unlock_src", !.slot = Junk,
                                          !.res = "ok"])
        /\ UNCHANGED q

UnlockSrc(t) ==
    LET s == th[t].src
    IN  /\ th[t].pc = "unlock_src"
        /\ q' = [q EXCEPT ![s] = release(q[s])]
        /\ th' = Goto(t, IF th[t].op = "copy_ctor" THEN "ret"
                                                   ELSE "unlock_dst")
        /\ UNCHANGED heap

UnlockDst(t) ==
    LET i == th[t].inst
    IN  /\ th[t].pc = "unlock_dst"
        /\ q' = [q EXCEPT ![i] = release(q[i])]
        /\ th' = Goto(t, "ret")
        /\ UNCHANGED heap

(***************************************************************************)
(* The copy specification: thread t1 copy-constructs B from A and then     *)
(* copy-assigns A to B, while thread t2 pushes to A, pops from A and       *)
(* copy-assigns B to A.                                                    *)
(***************************************************************************)
Copier == "t1"
Mutator == "t2"

\* what a caller can learn of object i, with the two indices
ViewOf(qq, hh, i) ==
    [capacity_ |-> qq[i].capacity_, size_ |-> qq[i].size_,
     front |-> qq[i].front, back |-> qq[i].back,
     contents |-> Contents(qq[i], hh)]

\* snap: the states A has had since the copier locked A for the copy in
\* progress and until it unlocked A (A in the middle of being assigned to
\* is in no state)
Snap ==
    snap' = IF th'[Copier].pc \in {"members", "loop", "unlock_src"}
            THEN (IF th'[Mutator].pc = "loop" THEN snap
                  ELSE snap \cup {ViewOf(q', heap', "A")})
            ELSE IF th'[Copier].pc \in {"unlock_dst", "ret"} THEN snap
            ELSE {}

PairCopy ==
    /\ \E op \in CopyOps : InvokeCopy(Copier, op, "B", "A")
    /\ Snap
    /\ UNCHANGED <<solo, sent, got>>

PairUse ==
    /\ \E op \in {"push_copy", "pop"} :
       \E v \in (IF op = "pop" THEN {Junk} ELSE 1..PairVals) :
          Invoke(Mutator, op, "A", v)
    /\ Snap
    /\ UNCHANGED <<solo, sent, got>>

PairCopyBack ==
    /\ InvokeCopy(Mutator, "copy_assign", "A", "B")
    /\ Snap
    /\ UNCHANGED <<solo, sent, got>>

PairLock ==
    /\ \E t \in Threads : Lock(t)
    /\ Snap
    /\ UNCHANGED <<solo, sent, got>>

PairCheck ==
    /\ \E t \in Threads : Check(t)
    /\ Snap
    /\ UNCHANGED <<solo, sent, got>>

PairUpdate ==
    /\ \E t \in Threads : Update(t)
    /\ Snap
    /\ UNCHANGED <<solo, sent, got>>

PairUnlock ==
    /\ \E t \in Threads : Unlock(t)
    /\ Snap
    /\ UNCHANGED <<solo, sent, got>>

PairDeref ==
    /\ \E t \in Threads : Deref(t)
    /\ Snap
    /\ UNCHANGED <<solo, sent, got>>

PairLockDst ==
    /\ \E t \in Threads : LockDst(t)
    /\ Snap
    /\ UNCHANGED <<solo, sent, got>>

PairLockSrc ==
    /\ \E t \in Threads : LockSrc(t)
    /\ Snap
    /\ UNCHANGED <<solo, sent, got>>

PairMembers ==
    /\ \E t \in Threads : Members(t)
    /\ Snap
    /\ UNCHANGED <<solo, sent, got>>

PairLoop ==
    /\ \E t \in Threads : Loop(t)
    /\ Snap
    /\ UNCHANGED <<solo, sent, got>>

PairUnlockSrc ==
    /\ \E t \in Threads : UnlockSrc(t)
    /\ Snap
    /\ UNCHANGED <<solo, sent, got>>

PairUnlockDst ==
    /\ \E t \in Threads : UnlockDst(t)
    /\ Snap
    /\ UNCHANGED <<solo, sent, got>>

PairReturn ==
    /\ \E t \in Threads : Return(t)
    /\ Snap
    /\ UNCHANGED <<solo, sent, got>>

PairNext ==
    \/ PairCopy
    \/ PairUse
    \/ PairCopyBack
    \/ PairLock
    \/ PairCheck
    \/ PairUpdate
    \/ PairUnlock
    \/ PairDeref
    \/ PairLockDst
    \/ PairLockSrc
    \/ PairMembers
    \/ PairLoop
    \/ PairUnlockSrc
    \/ PairUnlockDst
    \/ PairReturn

PairInit ==
    /\ \E c \in 1..PairCap :
          q = [i \in {"A"} |-> Fresh(c, 1)]
    /\ heap = NewArray(EmptyHeap(Junk), 1)
    /\ last = Call("construct", "A", "A", "ok", {}, FALSE)
    /\ status = "running"
    /\ dfree = FALSE
    /\ pushed = <<>>
    /\ popped = <<>>
    /\ copied = <<>>
    /\ ref = NoRef
    /\ th = [t \in Threads |-> Idle]
    /\ sent = <<>>
    /\ got = <<>>
    /\ snap = {}

SpecPair == PairInit /\ [][PairNext]_vars

(***************************************************************************)
(* Claims about copies under concurrent use (SpecPair).                    *)
(***************************************************************************)
\* C11: two threads that assign between the same two objects in opposite
\* directions never block each other for ever: there is no state where
\* each of them owns the mutex the other one waits for.
C11_LockOrder ==
    \A t \in Threads : \A u \in Threads \ {t} :
        ~(/\ th[t].pc = "lock_src" /\ q[th[t].src].mutex = u
          /\ th[u].pc = "lock_src" /\ q[th[u].src].mutex = t)

\* C14: when a copy of A into B (copy construction or copy assignment) is
\* complete, B is one of the states A had between the start and the end
\* of the copy (more precisely, while the copier held the mutex of A),
\* whatever pushes and pops another thread made on A meanwhile.
C14_AtomicSnapshot ==
    (th[Copier].pc = "ret" /\ th[Copier].op \in CopyOps)
        => ViewOf(q, heap, "B") \in snap

\* C14 witness: a copy assignment has completed while the other thread, in
\* the middle of a pop that will change A, waited for the mutex of A, and
\* A holds two different values.
C14_Witness ==
    /\ th[Copier].pc = "ret" /\ th[Copier].op = "copy_assign"
    /\ th[Mutator].pc = "lock" /\ th[Mutator].op = "pop"
    /\ q["A"].size_ = 2
    /\ Contents(q["A"], heap)[1] # Contents(q["A"], heap)[2]
    /\ ViewOf(q, heap, "B") = ViewOf(q, heap, "A")

=============================================================================
